---- MODULE Spec2Model ----
(***************************************************************************)
(* Session model of the code-review backend (src/src/models/session.ts)    *)
(* and the session configuration (src/src/config/app.config.ts).           *)
(*                                                                         *)
(* Time is counted in milliseconds, as the JavaScript Date does.           *)
(***************************************************************************)
EXTENDS Integers, Sequences, FiniteSets, TLC

VARIABLES
    now,        \* the clock, in milliseconds
    ticks,      \* how many times the clock has advanced
    session,    \* the Session object under test
    last,       \* the last call made and what it returned
    calls,      \* the state-change request of each concurrent caller
    store,      \* the sessions held by the session store
    timer,      \* the cleanup timer: "idle", "running" or "stopped"
    sweep       \* the sweep in progress, if any

vars == <<now, ticks, session, last, calls, store, timer, sweep>>

----------------------------------------------------------------------------
(* Bounds of the model *)

\* how many times the clock may advance in one behaviour
MaxTicks == 2

\* how many times the clock may advance while the store is in use
MaxStoreTicks == 1

\* how many sessions the store holds at most
MaxSessions == 2

----------------------------------------------------------------------------
(* Values *)

\* the JavaScript value undefined, for a string-typed field
Undefined == "undefined"

\* the JavaScript value undefined, for a Date-typed field
NoDate == -1

\* no Session object has been constructed yet
NoSession == [none |-> TRUE]

\* enum SessionState
SessionState == {"created", "uploaded", "analyzing", "completed", "error"}

\* 24 * 60 * 60 * 1000, the default lifetime the constructor adds
DayMs == 24 * 60 * 60 * 1000

\* the values uuidv4() may return
UUIDs == {"uuid-1", "uuid-2"}

\* the transition table of the session life cycle
TransitionTable ==
    {<<"created", "uploaded">>, <<"created", "error">>,
     <<"uploaded", "analyzing">>, <<"uploaded", "error">>,
     <<"analyzing", "completed">>, <<"analyzing", "error">>}

\* the request handlers that run concurrently
Callers == {"c1", "c2"}

\* JavaScript truthiness of a string-typed value
Truthy(v) == v # Undefined /\ v # ""

\* the Partial<Session> arguments the constructor is called with
IDChoices == {Undefined, "", "s-1"}
NameChoices == {"", "main.py"}
LanguageChoices == {"", "python"}
StateChoices == {Undefined} \cup SessionState
DateChoices == {NoDate, 0, DayMs}
PathChoices == {Undefined, "/tmp/x"}

PartialSession ==
    [sessionID : IDChoices, fileName : NameChoices, language : LanguageChoices,
     state : StateChoices, createdAt : DateChoices, expiresAt : DateChoices,
     filePath : PathChoices]

----------------------------------------------------------------------------
(* class Session *)

\* constructor(data): t1 is the clock read by new Date(), t2 the clock read
\* by Date.now(), uuid the value uuidv4() returns when it is called
Constructor(data, t1, t2, uuid) ==
    [sessionID      |-> IF Truthy(data.sessionID) THEN data.sessionID ELSE uuid,
     fileName       |-> data.fileName,
     language       |-> data.language,
     state          |-> IF Truthy(data.state) THEN data.state ELSE "created",
     createdAt      |-> IF data.createdAt # NoDate THEN data.createdAt ELSE t1,
     expiresAt      |-> IF data.expiresAt # NoDate THEN data.expiresAt ELSE t2 + DayMs,
     filePath       |-> data.filePath,
     analysisResult |-> Undefined]

\* validate()
validate(s) == Truthy(s.sessionID) /\ Truthy(s.fileName) /\ ~Truthy(s.language)

\* isExpired() with >= for >
isExpiredInclusive(s, t) == t >= s.expiresAt

\* isExpired() comparing the clock with createdAt
isExpiredSinceCreation(s, t) == t > s.createdAt

\* isExpired(), called when the clock reads t
isExpired(s, t) == t > s.expiresAt

\* updateState(newState)
updateState(s, newState) == [s EXCEPT !.state = newState]

\* Date.prototype.toISOString: the date split into its printed fields
toISOString(t) ==
    [day |-> t \div DayMs,
     hour |-> (t % DayMs) \div 3600000,
     minute |-> (t % 3600000) \div 60000,
     second |-> (t % 60000) \div 1000,
     ms |-> t % 1000]

\* new Date(isoString): the printed fields put together again
DateParse(iso) ==
    iso.day * DayMs + iso.hour * 3600000 + iso.minute * 60000
        + iso.second * 1000 + iso.ms

\* toJSON()
toJSON(s) ==
    [sessionID |-> s.sessionID,
     fileName  |-> s.fileName,
     language  |-> s.language,
     state     |-> s.state,
     createdAt |-> toISOString(s.createdAt),
     expiresAt |-> toISOString(s.expiresAt)]

\* static fromJSON(json): the constructor is given the fields json has, with
\* the two dates parsed
fromJSON(json, t1, t2, uuid) ==
    Constructor([sessionID |-> json.sessionID,
                 fileName  |-> json.fileName,
                 language  |-> json.language,
                 state     |-> json.state,
                 createdAt |-> DateParse(json.createdAt),
                 expiresAt |-> DateParse(json.expiresAt),
                 filePath  |-> IF "filePath" \in DOMAIN json
                               THEN json.filePath ELSE Undefined],
                t1, t2, uuid)

----------------------------------------------------------------------------
(* One Session object and the calls made on it *)

\* the parts of the state that the calls on one Session object leave alone
NoCalls == [c \in Callers |-> [status |-> "idle"]]
NoSweep == [active |-> FALSE]
StoreUnused == calls = NoCalls /\ store = {} /\ timer = "idle" /\ sweep = NoSweep

Init ==
    /\ now = 0
    /\ ticks = 0
    /\ session = NoSession
    /\ last = [op |-> "none"]
    /\ StoreUnused

\* the clock advances by a millisecond or by a day
Tick ==
    /\ ticks < MaxTicks
    /\ \E d \in {1, DayMs} : now' = now + d
    /\ ticks' = ticks + 1
    /\ UNCHANGED <<session, last, calls, store, timer, sweep>>

\* new Session(data), which makes the object; the clock may advance by a
\* millisecond between the constructor's two readings of it
New ==
    \E data \in PartialSession, uuid \in UUIDs, drift \in {0, 1} :
        /\ session = NoSession
        /\ drift = 1 => ticks < MaxTicks
        /\ session' = Constructor(data, now, now + drift, uuid)
        /\ now' = now + drift
        /\ ticks' = ticks + drift
        /\ last' = [op |-> "new", data |-> data, threw |-> FALSE]
        /\ UNCHANGED <<calls, store, timer, sweep>>

\* session.updateState(newState)
UpdateState ==
    /\ session # NoSession
    /\ \E newState \in SessionState :
        /\ session' = updateState(session, newState)
        /\ last' = [op |-> "updateState", before |-> session, to |-> newState,
                    threw |-> FALSE]
    /\ UNCHANGED <<now, ticks, calls, store, timer, sweep>>

\* session.validate()
Validate ==
    /\ session # NoSession
    /\ last' = [op |-> "validate", result |-> validate(session)]
    /\ UNCHANGED <<now, ticks, session, calls, store, timer, sweep>>

\* session.isExpired()
IsExpired ==
    /\ session # NoSession
    /\ last' = [op |-> "isExpired", result |-> isExpired(session, now)]
    /\ UNCHANGED <<now, ticks, session, calls, store, timer, sweep>>

\* session.toJSON()
ToJSON ==
    /\ session # NoSession
    /\ last' = [op |-> "toJSON", json |-> toJSON(session)]
    /\ UNCHANGED <<now, ticks, session, calls, store, timer, sweep>>

\* Session.fromJSON(json) of the object toJSON has just returned
FromJSON ==
    /\ last.op = "toJSON"
    /\ \E uuid \in UUIDs :
        last' = [op |-> "fromJSON",
                 result |-> fromJSON(last.json, now, now, uuid)]
    /\ UNCHANGED <<now, ticks, session, calls, store, timer, sweep>>

Next ==
    \/ Tick
    \/ New
    \/ UpdateState
    \/ Validate
    \/ IsExpired
    \/ ToJSON
    \/ FromJSON

Spec == Init /\ [][Next]_vars

----------------------------------------------------------------------------
(* Concurrent request handlers changing the state of one Session object.   *)
(* A handler reads the state the session is in, decides on the next state  *)
(* of the pipeline, and calls updateState later, with other handlers       *)
(* running in between; the call itself runs to completion.                 *)

\* the session the handlers share: a session made with valid arguments, in
\* the state it was made or rehydrated with
ConcInit ==
    /\ now = 0
    /\ ticks = 0
    /\ \E st \in StateChoices :
        session = Constructor([sessionID |-> Undefined, fileName |-> "main.py",
                               language |-> "python", state |-> st,
                               createdAt |-> NoDate, expiresAt |-> NoDate,
                               filePath |-> Undefined], now, now, "uuid-1")
    /\ last = [op |-> "none"]
    /\ calls = NoCalls
    /\ store = {}
    /\ timer = "idle"
    /\ sweep = NoSweep

\* handler c reads the session's state and decides to move it to a next
\* state of the pipeline
Request(c) ==
    /\ calls[c].status = "idle"
    /\ \E to \in SessionState :
        /\ <<session.state, to>> \in TransitionTable
        /\ calls' = [calls EXCEPT ![c] =
                [status |-> "pending", from |-> session.state, to |-> to]]
    /\ UNCHANGED <<now, ticks, session, last, store, timer, sweep>>

\* handler c calls session.updateState(to)
Commit(c) ==
    /\ calls[c].status = "pending"
    /\ session' = updateState(session, calls[c].to)
    /\ last' = [op |-> "updateState", before |-> session, to |-> calls[c].to,
                threw |-> FALSE]
    /\ calls' = [calls EXCEPT ![c].status = "committed"]
    /\ UNCHANGED <<now, ticks, store, timer, sweep>>

\* handler c returns and may serve another request
Return(c) ==
    /\ calls[c].status = "committed"
    /\ calls' = [calls EXCEPT ![c] = [status |-> "idle"]]
    /\ UNCHANGED <<now, ticks, session, last, store, timer, sweep>>

ConcNext ==
    \E c \in Callers :
        \/ Request(c)
        \/ Commit(c)
        \/ Return(c)

ConcSpec == ConcInit /\ [][ConcNext]_vars

----------------------------------------------------------------------------
(* The session store and the cleanup timer.  The store keeps Session       *)
(* objects by sessionID; the timer starts a sweep of the store, which      *)
(* visits the records one at a time.  While a sweep is in progress the     *)
(* store takes no put, update or delete; reads and the clock go on.        *)

\* the records of store st whose sessionID is id
Lookup(st, id) == {r \in st : r.sessionID = id}

\* get(id) when the clock reads t: the record, unless it is absent or expired
StoreGet(st, id, t) ==
    IF \E r \in Lookup(st, id) : ~isExpired(r, t)
    THEN CHOOSE r \in Lookup(st, id) : ~isExpired(r, t)
    ELSE NoSession

\* put(record) without the check for the sessionID
StorePutUnchecked(st, rec) == [store |-> st \cup {rec}, error |-> "none"]

\* put(record): the new store and the error, if any
StorePut(st, rec) ==
    IF Lookup(st, rec.sessionID) # {}
    THEN [store |-> st, error |-> "DuplicateIDError"]
    ELSE [store |-> st \cup {rec}, error |-> "none"]

\* update(id, mutator) when the clock reads t, with updateState(newState) as
\* the mutator: the new store and the error, if any
StoreUpdate(st, id, newState, t) ==
    LET r == StoreGet(st, id, t) IN
    IF r = NoSession
    THEN [store |-> st, error |-> "NotFoundError"]
    ELSE [store |-> (st \ {r}) \cup {updateState(r, newState)}, error |-> "none"]

\* delete(id)
StoreDelete(st, id) == st \ Lookup(st, id)

\* one record's turn in sweep(t): the record is removed when it has expired
SweepRecord(st, r, t) == IF isExpired(r, t) THEN st \ {r} ELSE st

\* the session IDs the callers use
SessionIDs == UUIDs \cup {"s-1"}

\* the arguments sessions are created with (no dates) or rehydrated with
\* (made at 0, to expire at 1)
StoredData ==
    {[sessionID |-> id, fileName |-> "main.py", language |-> "python",
      state |-> Undefined, createdAt |-> d[1], expiresAt |-> d[2],
      filePath |-> Undefined] :
        id \in {Undefined, "s-1"}, d \in {<<NoDate, NoDate>>, <<0, 1>>}}

\* the states the pipeline moves stored sessions to
UpdateChoices == {"uploaded"}

StoreInit ==
    /\ now = 0
    /\ ticks = 0
    /\ session = NoSession
    /\ last = [op |-> "none"]
    /\ calls = NoCalls
    /\ store = {}
    /\ timer = "idle"
    /\ sweep = NoSweep

\* the clock advances by a millisecond or by a day
StoreTick ==
    /\ ticks < MaxStoreTicks
    /\ \E d \in {1, DayMs} : now' = now + d
    /\ ticks' = ticks + 1
    /\ UNCHANGED <<session, last, calls, store, timer, sweep>>

\* store.put(new Session(data))
Put ==
    /\ ~sweep.active
    /\ \E data \in StoredData, uuid \in UUIDs :
        LET rec == Constructor(data, now, now, uuid)
            res == StorePut(store, rec)
        IN  /\ Cardinality(res.store) <= MaxSessions
            /\ store' = res.store
            /\ last' = [op |-> "put", error |-> res.error]
    /\ UNCHANGED <<now, ticks, session, calls, timer, sweep>>

\* store.get(id)
Get ==
    /\ \E id \in SessionIDs :
        last' = [op |-> "get", id |-> id, at |-> now,
                 result |-> StoreGet(store, id, now)]
    /\ UNCHANGED <<now, ticks, session, calls, store, timer, sweep>>

\* store.update(id, s => s.updateState(newState)): the store checks that the
\* record is there and has not expired; the state is set by updateState
Update ==
    /\ ~sweep.active
    /\ \E id \in SessionIDs, newState \in UpdateChoices :
        LET res == StoreUpdate(store, id, newState, now) IN
            /\ store' = res.store
            /\ last' = [op |-> "update", id |-> id, at |-> now,
                        error |-> res.error]
    /\ UNCHANGED <<now, ticks, session, calls, timer, sweep>>

\* store.delete(id)
Delete ==
    /\ ~sweep.active
    /\ \E id \in SessionIDs :
        /\ store' = StoreDelete(store, id)
        /\ last' = [op |-> "delete"]
    /\ UNCHANGED <<now, ticks, session, calls, timer, sweep>>

\* the cleanup timer is started, at process initialization
StartTimer ==
    /\ timer = "idle"
    /\ timer' = "running"
    /\ UNCHANGED <<now, ticks, session, last, calls, store, sweep>>

\* the cleanup timer is stopped, at shutdown
StopTimer ==
    /\ timer = "running"
    /\ timer' = "stopped"
    /\ UNCHANGED <<now, ticks, session, last, calls, store, sweep>>

\* the timer fires although it has been stopped
TimerFiresWhenStopped ==
    /\ timer # "idle"
    /\ ~sweep.active
    /\ sweep' = [active |-> TRUE, at |-> now, before |-> store,
                 scan |-> {r.sessionID : r \in store}, removed |-> 0,
                 again |-> (last.op = "sweep" /\ last.at = now)]
    /\ UNCHANGED <<now, ticks, session, last, calls, store, timer>>

\* the timer fires and sweep(now) begins; a tick that finds a sweep in
\* progress is skipped
TimerFires ==
    /\ timer = "running"
    /\ ~sweep.active
    /\ sweep' = [active |-> TRUE, at |-> now, before |-> store,
                 scan |-> {r.sessionID : r \in store}, removed |-> 0,
                 again |-> (last.op = "sweep" /\ last.at = now)]
    /\ UNCHANGED <<now, ticks, session, last, calls, store, timer>>

\* the sweep visits one record
SweepStep ==
    /\ sweep.active
    /\ \E id \in sweep.scan :
        LET r == CHOOSE x \in Lookup(store, id) : TRUE IN
            /\ store' = SweepRecord(store, r, sweep.at)
            /\ sweep' = [sweep EXCEPT !.scan = @ \ {id},
                            !.removed = IF store' = store THEN @ ELSE @ + 1]
    /\ UNCHANGED <<now, ticks, session, last, calls, timer>>

\* the sweep has visited every record and returns the number removed
SweepEnd ==
    /\ sweep.active
    /\ sweep.scan = {}
    /\ last' = [op |-> "sweep", at |-> sweep.at, count |-> sweep.removed]
    /\ sweep' = NoSweep
    /\ UNCHANGED <<now, ticks, session, calls, store, timer>>

StoreNext ==
    \/ StoreTick
    \/ Put
    \/ Get
    \/ Update
    \/ Delete
    \/ StartTimer
    \/ StopTimer
    \/ TimerFires
    \/ SweepStep
    \/ SweepEnd

StoreSpec == StoreInit /\ [][StoreNext]_vars

----------------------------------------------------------------------------
(* The session contract, stated of one Session object *)

\* C1: a requested state change from `from` to `to` succeeds (does not throw
\* and leaves the session in `to`) exactly when the pair is in the transition
\* table, and otherwise is rejected with the state kept; so a session in
\* completed or error never changes state again.
C1_OnlyTableTransitionsSucceed ==
    last.op = "updateState" =>
        IF <<last.before.state, last.to>> \in TransitionTable
        THEN ~last.threw /\ session.state = last.to
        ELSE last.threw /\ session.state = last.before.state

\* C2: a state-change request that is not in the transition table fails and
\* leaves every field of the record as it was before the request.
C2_RejectedRequestLeavesRecord ==
    (last.op = "updateState"
        /\ <<last.before.state, last.to>> \notin TransitionTable)
    => (last.threw /\ session = last.before)

\* C4: every session has expiresAt > createdAt, and a session whose
\* expiresAt was not overridden has expiresAt = createdAt + 24h exactly, at
\* construction and after any sequence of state changes.
C4_ExpiresAtIsCreatedAtPlusTTL ==
    session # NoSession =>
        /\ session.expiresAt > session.createdAt
        /\ (last.op = "new" /\ last.data.expiresAt = NoDate)
            => session.expiresAt = session.createdAt + DayMs

\* C5: constructing a session with an empty fileName or an empty language
\* fails and yields no record, and validate() accepts a record exactly when
\* fileName and language are both non-empty.
C5_EmptyNameOrLanguageRejected ==
    /\ session # NoSession =>
        (Truthy(session.fileName) /\ Truthy(session.language))
    /\ last.op = "validate" =>
        (last.result = (Truthy(session.fileName) /\ Truthy(session.language)))

\* C6: fromJSON(toJSON(s)) has the same sessionID, fileName, language, state,
\* createdAt, expiresAt, filePath and analysisResult as s.
C6_SerializationRoundTrips ==
    last.op = "fromJSON" => last.result = session

\* C7: of the concurrent requests that were made in the same state of the
\* session and ask for different next states, at most one commits; the
\* others fail.
C7_OneConcurrentTransitionCommits ==
    \A c, d \in Callers :
        (c # d /\ calls[c].status = "committed" /\ calls[d].status = "committed"
            /\ calls[c].from = calls[d].from)
        => calls[c].to = calls[d].to

----------------------------------------------------------------------------
(* The store contract *)

\* C3 as stated: a read at a time at or after expiresAt never returns the
\* record (whether or not a sweep has removed it), and a read one
\* millisecond before expiresAt of a record the store holds returns it.
C3_AbsentFromExpiresAt ==
    last.op = "get" =>
        /\ last.result # NoSession => last.at < last.result.expiresAt
        /\ \A r \in store :
            (r.sessionID = last.id /\ last.at = r.expiresAt - 1)
            => last.result = r

\* C3 as amended: a read (get, or the existence check of update) at a time
\* after expiresAt treats the record as absent, whether or not a sweep has
\* removed it, and a read at a time up to and including expiresAt of a
\* record the store holds succeeds.
C3_AbsentAfterExpiresAt ==
    /\ last.op = "get" =>
        /\ last.result # NoSession => last.at <= last.result.expiresAt
        /\ \A r \in store : r.sessionID = last.id =>
            IF last.at <= r.expiresAt
            THEN last.result = r
            ELSE last.result = NoSession
    /\ last.op = "update" =>
        \A r \in store : r.sessionID = last.id =>
            IF last.at <= r.expiresAt
            THEN last.error = "none"
            ELSE last.error = "NotFoundError"

\* a read found the record absent although the store still holds it, expired
C3_Witness ==
    /\ last.op = "get"
    /\ last.result = NoSession
    /\ \E r \in store : r.sessionID = last.id /\ last.at > r.expiresAt

\* C8: a sweep at time t removes exactly the records with expiresAt < t,
\* leaves every other record present and unchanged, and returns the number
\* removed; a sweep at the same t right after another returns 0.
C8_SweepRemovesExactlyExpired ==
    [][(sweep.active /\ ~sweep'.active) =>
        /\ store' = {r \in sweep.before : ~(r.expiresAt < sweep.at)}
        /\ last'.op = "sweep"
        /\ last'.count = Cardinality(sweep.before) - Cardinality(store')
        /\ sweep.again => last'.count = 0]_vars

\* a sweep has removed a record and kept another
C8_Witness ==
    /\ last.op = "sweep"
    /\ last.count > 0
    /\ \E r \in store : ~(r.expiresAt < last.at)
    /\ ~sweep.active

\* C9: no two records of the store share a sessionID, and a put of a record
\* whose sessionID the store already holds fails with DuplicateIDError and
\* leaves the store as it was.
C9_SessionIDsUnique ==
    /\ [](\A r1, r2 \in store : r1.sessionID = r2.sessionID => r1 = r2)
    /\ [][(last' # last /\ last'.op = "put"
            /\ last'.error = "DuplicateIDError") => store' = store]_vars

\* a put was refused for its sessionID while the store holds two records
C9_Witness ==
    /\ last.op = "put"
    /\ last.error = "DuplicateIDError"
    /\ Cardinality(store) = 2

\* C10: the timer is started once and stopped once; once it is stopped no
\* sweep starts; stopping it leaves a sweep in progress as it is, and a
\* sweep in progress only moves on to its next record and ends only when it
\* has visited every record.
C10_NoSweepStartsAfterStop ==
    [][/\ timer' # timer =>
            \/ timer = "idle" /\ timer' = "running"
            \/ timer = "running" /\ timer' = "stopped" /\ sweep' = sweep
                    /\ store' = store
       /\ (timer = "stopped" /\ ~sweep.active) => ~sweep'.active
       /\ (sweep.active /\ sweep'.active) =>
            /\ sweep'.at = sweep.at
            /\ sweep'.before = sweep.before
            /\ sweep'.scan \subseteq sweep.scan
       /\ (sweep.active /\ ~sweep'.active) => sweep.scan = {}]_vars

\* the timer is stopped while a sweep has removed a record and has another
\* left to visit
C10_Witness ==
    /\ timer = "stopped"
    /\ sweep.active
    /\ sweep.removed > 0
    /\ sweep.scan # {}

====
